---- MODULE Spec2Model ----
(***************************************************************************)
(* A model of the transformer-heads loading / persistence orchestrator     *)
(* (src/transformer_heads/util/load_model.py) and of the composed model    *)
(* (src/headed_model.py): construction, forward/loss, split persistence.   *)
(*                                                                         *)
(* A tensor of weights is abstracted to a natural number (its "version":   *)
(* 0 is the freshly initialised / pretrained value, each optimiser step    *)
(* on a parameter with gradient tracking adds one).  A directory is a      *)
(* record of the files the code writes into it.                            *)
(***************************************************************************)
EXTENDS Integers, Sequences, FiniteSets, TLC

VARIABLES
    model,      \* the model instance the session currently holds
    disk,       \* the directories: manifest, standalone head files, adapter
    ret,        \* the last call: operation, arguments, outcome
    saveLog,    \* the writes the last save call performed, in order
    snap,       \* per directory: the heads of the model at its last completed save
    fmodel,     \* the composed model the forward pass runs on
    out,        \* the last forward call: inputs and outcome
    given       \* the head-configuration list the caller passes as head_configs

vars == <<model, disk, ret, saveLog, snap, fmodel, out, given>>

(***************************** bounds **************************************)
\* Longest head-configuration list handed to a loader or a constructor.
MaxHeads == 2
\* Largest weight version an optimiser step may produce.
MaxWeight == 1
\* Longest sequence (number of positions) of a forward call.
MaxSeqLen == 3
\* Most hidden layers (entries of layer_sizes) of a constructed head.
MaxLayers == 1

None == "None"
HeadNames == {"a", "b", "lm_head"}
Dirs == {"ckpt"}
Range(s) == {s[i] : i \in DOMAIN s}

\* Sequences over S of length 0..n.
SeqsUpTo(S, n) == UNION {[1..k -> S] : k \in 0..n}

\* Head-configuration lists with unique names.
UniqueLists(S) ==
    {s \in SeqsUpTo(S, MaxHeads) :
        \A i, j \in DOMAIN s : s[i].name = s[j].name => i = j}

\* The head configurations the loaders are exercised with: auxiliary heads with
\* every combination of the two flags, and the usual "lm_head" configuration.
LoaderConfigs ==
    {c \in [name : HeadNames, trainable : BOOLEAN, requires_individual_saving : BOOLEAN,
            loss_fct : {None}, is_causal_lm : BOOLEAN, is_regression : {FALSE},
            layer_sizes : {<<>>}] :
        /\ c.is_causal_lm = (c.name = "lm_head")
        /\ c.name = "lm_head" => c.trainable /\ ~c.requires_individual_saving}

(************************ the composed model *******************************)
NamesOf(cfgs) == [i \in DOMAIN cfgs |-> cfgs[i].name]
IsAux(n) == n # "lm_head"
ConfigOf(cfgs, n) == CHOOSE c \in Range(cfgs) : c.name = n

\* MLPHead's lins: one linear transformation per entry of layer_sizes, then
\* the output transformation.
Lins(cfg) ==
    [i \in 1..(Len(cfg.layer_sizes) + 1) |->
        [layer |-> i - 1, output |-> i = Len(cfg.layer_sizes) + 1]]

\* MLPHead.from_head_config: a fresh head carrying its configuration's flags.
MLPHeadFromConfig(cfg) ==
    [weight |-> 0, requires_grad |-> TRUE, trainable |-> cfg.trainable,
     requires_individual_saving |-> cfg.requires_individual_saving,
     lins |-> Lins(cfg)]

NoLmHead == [present |-> FALSE, weight |-> 0, requires_grad |-> FALSE]
NoAdapter == [present |-> FALSE, weight |-> 0, requires_grad |-> FALSE]

\* TransformerWithHeads.__init__: one head per configured name; a head named
\* "lm_head" is taken out of the collection, its lins[0] kept as the lm_head
\* projection (lm_head_lin) and its configuration as lm_head_config, each a
\* sequence that is empty for Python's None.
Construct(cfgs) ==
    LET names == Range(NamesOf(cfgs))
        all == [n \in names |-> MLPHeadFromConfig(ConfigOf(cfgs, n))]
    IN [head_configs |-> cfgs,
        heads |-> [n \in {x \in names : IsAux(x)} |-> all[n]],
        lm_head |-> IF "lm_head" \in names
                    THEN [present |-> TRUE, weight |-> all["lm_head"].weight,
                          requires_grad |-> all["lm_head"].requires_grad]
                    ELSE NoLmHead,
        lm_head_lin |-> IF "lm_head" \in names THEN <<all["lm_head"].lins[1]>> ELSE <<>>,
        lm_head_config |-> IF "lm_head" \in names THEN <<ConfigOf(cfgs, "lm_head")>>
                           ELSE <<>>]

\* The iteration order of self.heads: configuration order, "lm_head" removed.
HeadOrder(cfgs) == SelectSeq(NamesOf(cfgs), IsAux)

NoModel ==
    [loader |-> "none", head_configs |-> <<>>, heads |-> <<>>, lm_head |-> NoLmHead,
     base_requires_grad |-> FALSE, adapter |-> NoAdapter,
     save_pretrained |-> "class", old_save_pretrained |-> "unset",
     only_inference |-> FALSE]

\* from_pretrained: the composed model with the backbone's pretrained weights;
\* every parameter is created with gradient tracking on.
FromPretrained(cfgs) ==
    LET c == Construct(cfgs)
    IN [NoModel EXCEPT !.head_configs = c.head_configs, !.heads = c.heads,
                       !.lm_head = c.lm_head, !.base_requires_grad = TRUE]

(************************** the directories ********************************)
EmptyFolder ==
    [manifest_present |-> FALSE, manifest |-> <<>>, files |-> <<>>,
     adapter_present |-> FALSE, adapter_weight |-> 0, backbone |-> FALSE]

\* json.dump(self.head_configs, f): one record per head name, in dict order.
JsonDump(cfgs) == [i \in DOMAIN cfgs |-> <<cfgs[i].name, cfgs[i]>>]
\* list(json.load(f).values())
ManifestValues(manifest) == [i \in DOMAIN manifest |-> manifest[i][2]]
ManifestKeys(manifest) == {manifest[i][1] : i \in DOMAIN manifest}

\* MLPHead.save_to_safetensors: the head's weights in a file named by the head.
SaveToSafetensors(files, n, h) ==
    [x \in DOMAIN files \cup {n} |-> IF x = n THEN h.weight ELSE files[x]]
\* MLPHead.load_from_safetensors: the head's weights replaced by the file's.
LoadFromSafetensors(h, w) == [h EXCEPT !.weight = w]
\* MLPHead.set_requires_grad
SetRequiresGrad(h, flag) == [h EXCEPT !.requires_grad = flag]

(***************************** the loaders *********************************)
QuantConfigs == {None, "4bit", "8bit", "nobits"}

\* bits = 4 if load_in_4bit else 8 if load_in_8bit else 32 (32 without a config)
Bits(q) == IF q = "4bit" THEN 4 ELSE IF q = "8bit" THEN 8 ELSE 32

\* for name, param in model.named_parameters(): param.requires_grad = False
FreezeAll(m) ==
    [m EXCEPT !.base_requires_grad = FALSE,
              !.heads = [n \in DOMAIN m.heads |-> SetRequiresGrad(m.heads[n], FALSE)],
              !.lm_head = [m.lm_head EXCEPT !.requires_grad = FALSE],
              !.adapter = [m.adapter EXCEPT !.requires_grad = FALSE]]

\* peft's prepare_model_for_kbit_training: every parameter of the model frozen.
PrepareModelForKbitTraining(m) == FreezeAll(m)

\* patch_save_pretrained: the instance's save replaced by the split-persistence
\* save; the previous save kept as old_save_pretrained, or a no-op put there.
PatchSavePretrained(m, preserve_old) ==
    [m EXCEPT !.old_save_pretrained = IF preserve_old THEN m.save_pretrained ELSE "noop",
              !.save_pretrained = "patched"]

\* peft's get_peft_model: a fresh trainable adapter; the wrapper's own save
\* (adapter only) becomes the instance's save.
GetPeftModel(m) ==
    [m EXCEPT !.adapter = [present |-> TRUE, weight |-> 0, requires_grad |-> TRUE],
              !.save_pretrained = "peft"]

\* model.load_adapter(path): the stored adapter attached, not trainable.
LoadAdapter(m, folder) ==
    [m EXCEPT !.adapter = [present |-> TRUE, weight |-> folder.adapter_weight,
                           requires_grad |-> FALSE]]

\* What ret keeps of a call's arguments: all of load_headed's; of the other
\* calls, whose remaining arguments show in the model they return, the
\* directory and whether a head-configuration list was passed.
NoArgs ==
    [head_configs_given |-> FALSE, folder_given |-> FALSE, path |-> None,
     quant |-> None, only_inference |-> FALSE, freeze_base_model |-> FALSE]

\* An exception a call raises is not caught: the session ends with it.
Running == ret.status = "ok"

Outcome(op, status, failed_at, built, args) ==
    [op |-> op, status |-> status, failed_at |-> failed_at, built |-> built,
     args |-> args]

\* assert head_configs is not None or head_folder_path is not None
SomeHeadSource(hcGiven, pathGiven) == hcGiven \/ pathGiven

OneHeadSourceDropped(hcGiven, pathGiven) == TRUE
\* assert head_configs is None or head_folder_path is None
OneHeadSource(hcGiven, pathGiven) == ~hcGiven \/ ~pathGiven

QuantizationAllowedInferenceOnly(q, oi, fr) == q = None \/ oi
\* assert quantization_config is None or only_inference or freeze_base_model
QuantizationAllowed(q, oi, fr) == q = None \/ oi \/ fr

\* The three assertions load_headed opens with.
ArgumentsRejected(hcGiven, pathGiven, q, oi, fr) ==
    \/ ~SomeHeadSource(hcGiven, pathGiven)
    \/ ~OneHeadSource(hcGiven, pathGiven)
    \/ ~QuantizationAllowed(q, oi, fr)

LoadHeadedHeadFlagOnlyTrainable(h, n, folder_given, folder, only_inference) ==
    LET h1 == IF folder_given THEN LoadFromSafetensors(h, folder.files[n]) ELSE h
    IN IF ~only_inference /\ h1.trainable
       THEN [SetRequiresGrad(h1, TRUE) EXCEPT !.requires_individual_saving = TRUE]
       ELSE h1

\* The body of load_headed's loop over model.heads.values().
LoadHeadedHead(h, n, folder_given, folder, only_inference) ==
    LET h1 == IF folder_given THEN LoadFromSafetensors(h, folder.files[n]) ELSE h
        h2 == IF ~only_inference /\ h1.trainable THEN SetRequiresGrad(h1, TRUE) ELSE h1
    IN IF ~only_inference THEN [h2 EXCEPT !.requires_individual_saving = TRUE] ELSE h2

\* The instance load_headed builds once its arguments are accepted and the
\* head files are there.
LoadHeadedModel(cfgs, folder_given, folder, only_inference, q, freeze) ==
    LET m0 == FromPretrained(cfgs)
        m1 == IF freeze /\ q = None THEN FreezeAll(m0) ELSE m0
        m2 == IF q # None /\ Bits(q) < 16
              THEN PatchSavePretrained(
                       IF ~only_inference THEN PrepareModelForKbitTraining(m1) ELSE m1,
                       FALSE)
              ELSE m1
    IN [m2 EXCEPT !.loader = "load_headed", !.only_inference = only_inference,
                  !.heads = [n \in DOMAIN m2.heads |->
                      LoadHeadedHead(m2.heads[n], n, folder_given, folder, only_inference)]]

\* load_headed(base_model_class, model_name, head_configs, head_folder_path,
\*             only_inference, quantization_config, freeze_base_model)
LoadHeaded ==
    \E hcGiven \in BOOLEAN, pathGiven \in BOOLEAN,
       path \in Dirs, oi \in BOOLEAN, q \in QuantConfigs, fr \in BOOLEAN :
      /\ Running
      /\ ArgumentsRejected(hcGiven, pathGiven, q, oi, fr) => model.loader = "none"
      /\ LET hc == given
             args == [NoArgs EXCEPT !.head_configs_given = hcGiven,
                         !.folder_given = pathGiven, !.path = path, !.quant = q,
                         !.only_inference = oi, !.freeze_base_model = fr]
             folder == disk[path]
             cfgs == IF pathGiven THEN ManifestValues(folder.manifest) ELSE hc
             aux == Range(HeadOrder(cfgs))
         IN  IF ~SomeHeadSource(hcGiven, pathGiven)
             THEN /\ ret' = Outcome("load_headed", "AssertionError", "neither", FALSE, args)
                  /\ UNCHANGED model
             ELSE IF ~OneHeadSource(hcGiven, pathGiven)
             THEN /\ ret' = Outcome("load_headed", "AssertionError", "both", FALSE, args)
                  /\ UNCHANGED model
             ELSE IF ~QuantizationAllowed(q, oi, fr)
             THEN /\ ret' = Outcome("load_headed", "AssertionError", "quantization", FALSE, args)
                  /\ UNCHANGED model
             ELSE IF pathGiven /\ ~folder.manifest_present
             THEN /\ ret' = Outcome("load_headed", "FileNotFoundError", "manifest", FALSE, args)
                  /\ UNCHANGED model
             ELSE IF pathGiven /\ \E n \in aux : n \notin DOMAIN folder.files
             THEN /\ ret' = Outcome("load_headed", "LoadError", "head_file", TRUE, args)
                  /\ UNCHANGED model
             ELSE /\ ret' = Outcome("load_headed", "ok", None, TRUE, args)
                  /\ model' = LoadHeadedModel(cfgs, pathGiven, folder, oi, q, fr)
      /\ saveLog' = <<>>
      /\ UNCHANGED <<disk, snap, fmodel, out, given>>

LoadLoraHeadNotRestored(h, n, folder, only_inference, fully_trained_heads) ==
    IF ~only_inference /\ fully_trained_heads
    THEN [SetRequiresGrad(h, TRUE) EXCEPT !.requires_individual_saving = TRUE]
    ELSE h

\* The body of load_lora_with_heads's loop over model.heads.values().
LoadLoraHead(h, n, folder, only_inference, fully_trained_heads) ==
    LET h1 == LoadFromSafetensors(h, folder.files[n])
    IN IF ~only_inference /\ fully_trained_heads
       THEN [SetRequiresGrad(h1, TRUE) EXCEPT !.requires_individual_saving = TRUE]
       ELSE h1

LoadLoraModel(cfgs, folder, only_inference, fully_trained_heads) ==
    LET m0 == FromPretrained(cfgs)
        m1 == IF ~only_inference THEN PrepareModelForKbitTraining(m0) ELSE m0
        m2 == LoadAdapter(m1, folder)
        m3 == IF ~only_inference
              THEN [m2 EXCEPT !.adapter = [m2.adapter EXCEPT !.requires_grad = TRUE]]
              ELSE m2
        m4 == [m3 EXCEPT !.loader = "load_lora_with_heads",
                         !.only_inference = only_inference,
                         !.heads = [n \in DOMAIN m3.heads |->
                             LoadLoraHead(m3.heads[n], n, folder, only_inference,
                                          fully_trained_heads)]]
    IN PatchSavePretrained(m4, TRUE)

\* load_lora_with_heads(base_model_class, path, quantization_config,
\*                      only_inference, fully_trained_heads).
\* quantization_config only decides how from_pretrained stores the backbone.
LoadLoraWithHeads ==
    \E path \in Dirs, oi \in BOOLEAN, fth \in BOOLEAN :
      /\ Running
      /\ LET args == [NoArgs EXCEPT !.folder_given = TRUE, !.path = path]
             folder == disk[path]
             cfgs == ManifestValues(folder.manifest)
             aux == Range(HeadOrder(cfgs))
         IN  IF ~folder.adapter_present
             THEN /\ ret' = Outcome("load_lora_with_heads", "FileNotFoundError",
                                    "adapter_config", FALSE, args)
                  /\ UNCHANGED model
             ELSE IF ~folder.manifest_present
             THEN /\ ret' = Outcome("load_lora_with_heads", "FileNotFoundError",
                                    "manifest", FALSE, args)
                  /\ UNCHANGED model
             ELSE IF \E n \in aux : n \notin DOMAIN folder.files
             THEN /\ ret' = Outcome("load_lora_with_heads", "LoadError", "head_file",
                                    TRUE, args)
                  /\ UNCHANGED model
             ELSE /\ ret' = Outcome("load_lora_with_heads", "ok", None, TRUE, args)
                  /\ model' = LoadLoraModel(cfgs, folder, oi, fth)
      /\ saveLog' = <<>>
      /\ UNCHANGED <<disk, snap, fmodel, out, given>>

CreateQloraModel(cfgs, fully_trained_heads) ==
    LET m0 == FromPretrained(cfgs)
        m1 == PrepareModelForKbitTraining(m0)
        m2 == GetPeftModel(m1)
        m3 == [m2 EXCEPT !.loader = "create_headed_qlora",
                         !.heads = [n \in DOMAIN m2.heads |->
                             IF fully_trained_heads
                             THEN [SetRequiresGrad(m2.heads[n], TRUE)
                                      EXCEPT !.requires_individual_saving = TRUE]
                             ELSE m2.heads[n]]]
    IN PatchSavePretrained(m3, TRUE)

\* create_headed_qlora(base_model_class, model_name, quantization_config,
\*                     lora_config, head_configs, fully_trained_heads).
\* quantization_config only decides how from_pretrained stores the backbone.
CreateHeadedQlora ==
    \E fth \in BOOLEAN :
      /\ Running
      /\ ret' = Outcome("create_headed_qlora", "ok", None, TRUE,
                        [NoArgs EXCEPT !.head_configs_given = TRUE])
      /\ model' = CreateQloraModel(given, fth)
      /\ saveLog' = <<>>
      /\ UNCHANGED <<disk, snap, fmodel, out, given>>

(****************************** training **********************************)
TrainableWeights(m) ==
    {m.heads[n].weight : n \in {x \in DOMAIN m.heads : m.heads[x].requires_grad}}
    \cup (IF m.lm_head.present /\ m.lm_head.requires_grad THEN {m.lm_head.weight} ELSE {})
    \cup (IF m.adapter.present /\ m.adapter.requires_grad THEN {m.adapter.weight} ELSE {})

Step(p) == IF p.requires_grad THEN [p EXCEPT !.weight = p.weight + 1] ELSE p

\* One optimiser step of the caller's training loop: every parameter with
\* gradient tracking on changes. An inference-only model is not trained.
Train ==
    /\ Running
    /\ model.loader # "none"
    /\ ~model.only_inference
    /\ TrainableWeights(model) # {}
    /\ \A w \in TrainableWeights(model) : w < MaxWeight
    /\ model' = [model EXCEPT !.heads = [n \in DOMAIN model.heads |-> Step(model.heads[n])],
                              !.lm_head = IF model.lm_head.present
                                          THEN Step(model.lm_head) ELSE model.lm_head,
                              !.adapter = IF model.adapter.present
                                          THEN Step(model.adapter) ELSE model.adapter]
    /\ ret' = Outcome("train", "ok", None, FALSE, NoArgs)
    /\ saveLog' = <<>>
    /\ UNCHANGED <<disk, snap, fmodel, out, given>>

(**************************** persistence **********************************)
LogEntry(step, name) == [step |-> step, name |-> name]

\* PreTrainedModel.save_pretrained: the adapter alone when one is loaded into
\* the model, the full checkpoint otherwise.
SuperSave(m, folder) ==
    IF m.adapter.present
    THEN [folder EXCEPT !.adapter_present = TRUE, !.adapter_weight = m.adapter.weight]
    ELSE [folder EXCEPT !.backbone = TRUE]

\* PeftModel.save_pretrained: the adapter's weights and adapter_config.json.
PeftSave(m, folder) ==
    [folder EXCEPT !.adapter_present = TRUE, !.adapter_weight = m.adapter.weight]

\* TransformerWithHeads.save_pretrained: the backbone's save, then a loop over
\* self.heads, which yields the collection's keys: reading
\* requires_individual_saving of a key raises AttributeError.
ClassSave(m, folder) ==
    [folder |-> SuperSave(m, folder),
     log |-> <<LogEntry("backbone", "class")>>,
     status |-> IF DOMAIN m.heads # {} THEN "AttributeError" ELSE "ok"]

\* self.old_save_pretrained(...) of the patched save.
OldSave(m, folder) ==
    CASE m.old_save_pretrained = "noop" ->
            [folder |-> folder, log |-> <<>>, status |-> "ok"]
      [] m.old_save_pretrained = "peft" ->
            [folder |-> PeftSave(m, folder),
             log |-> <<LogEntry("backbone", "peft")>>, status |-> "ok"]
      [] OTHER -> ClassSave(m, folder)

\* for head in self.heads.values(): if head.requires_individual_saving: save
RECURSIVE SaveHeads(_, _, _)
SaveHeads(m, order, acc) ==
    IF order = <<>> THEN acc
    ELSE LET n == Head(order)
             h == m.heads[n]
             next == IF h.requires_individual_saving
                     THEN [files |-> SaveToSafetensors(acc.files, n, h),
                           log |-> Append(acc.log, LogEntry("head", n))]
                     ELSE acc
         IN SaveHeads(m, Tail(order), next)

\* The save patch_save_pretrained installs.
PatchedSave(m, folder) ==
    LET old == OldSave(m, folder)
        hs == SaveHeads(m, HeadOrder(m.head_configs),
                        [files |-> old.folder.files, log |-> old.log])
    IN IF old.status # "ok" THEN old
       ELSE [folder |-> [old.folder EXCEPT !.files = hs.files,
                                           !.manifest_present = TRUE,
                                           !.manifest = JsonDump(m.head_configs)],
             log |-> Append(hs.log, LogEntry("manifest", "head_configs.json")),
             status |-> "ok"]

\* model.save_pretrained(save_directory), whichever save the instance carries.
SaveResult(m, folder) ==
    IF m.save_pretrained = "patched" THEN PatchedSave(m, folder)
    ELSE IF m.save_pretrained = "peft"
    THEN [folder |-> PeftSave(m, folder), log |-> <<LogEntry("backbone", "peft")>>,
          status |-> "ok"]
    ELSE ClassSave(m, folder)

SnapshotOf(m) ==
    [valid |-> TRUE,
     heads |-> [n \in DOMAIN m.heads |-> m.heads[n].weight],
     flagged |-> {n \in DOMAIN m.heads : m.heads[n].requires_individual_saving},
     lm_present |-> m.lm_head.present, lm_weight |-> m.lm_head.weight,
     names |-> Range(NamesOf(m.head_configs)),
     patched |-> m.save_pretrained = "patched"]

NoSnapshot ==
    [valid |-> FALSE, heads |-> <<>>, flagged |-> {}, lm_present |-> FALSE,
     lm_weight |-> 0, names |-> {}, patched |-> FALSE]

Save ==
    /\ Running
    /\ model.loader # "none"
    /\ \E d \in Dirs :
         LET r == SaveResult(model, disk[d])
         IN /\ disk' = [disk EXCEPT ![d] = r.folder]
            /\ saveLog' = r.log
            /\ ret' = Outcome("save", r.status, None, FALSE, [NoArgs EXCEPT !.path = d])
            /\ snap' = IF r.status = "ok" THEN [snap EXCEPT ![d] = SnapshotOf(model)]
                       ELSE snap
    /\ UNCHANGED <<model, fmodel, out, given>>

(******************************* forward ***********************************)
\* loss_fct_map of the composed model's module.
LossFctMap == {"mse", "cross_entropy"}

\* The head configurations the forward pass is exercised with.
ForwardConfigs ==
    {[name |-> n, trainable |-> TRUE, requires_individual_saving |-> FALSE,
      loss_fct |-> l, is_causal_lm |-> c, is_regression |-> r,
      layer_sizes |-> <<>>] :
        n \in HeadNames, l \in {None, "mse", "cross_entropy", "bce"},
        c \in BOOLEAN, r \in BOOLEAN}

\* A tensor over the sequence axis: one entry per position 0..L-1, tagged with
\* the head (logits) or the label name (labels) it belongs to.
SeqTensor(name, L) == [i \in 1..L |-> [of |-> name, pos |-> i - 1]]

\* x[..., :-1, :] and x[..., 1:]
DropLast(x) == SubSeq(x, 1, Len(x) - 1)
DropFirst(x) == SubSeq(x, 2, Len(x))

\* tensor.view(...): the entries in the same order.
View(x) == x

\* A flattened tensor indexed by a head name: only integers, slices and
\* tensors index a tensor.
TensorGetItemByName(x, name) == [ok |-> FALSE, error |-> "IndexError", value |-> <<>>]

\* The loss function's value on aligned logits and labels, abstracted to the
\* number of aligned positions plus one.
LossValue(logits, labels) == Len(logits) + 1

NoForward ==
    [status |-> "none", loss |-> 0, loss_by_head |-> <<>>, logits_by_head |-> <<>>,
     preds_by_head |-> <<>>, applied |-> <<>>]

Put(f, k, v) == [x \in DOMAIN f \cup {k} |-> IF x = k THEN v ELSE f[x]]

\* One iteration of forward's loop, for the head configured by cfg.
ForwardHead(acc, cfg, labels, L) ==
    LET logits == SeqTensor(cfg.name, L)
        filed == IF cfg.is_regression
                 THEN [acc EXCEPT !.preds_by_head = Put(acc.preds_by_head, cfg.name, logits)]
                 ELSE [acc EXCEPT !.logits_by_head = Put(acc.logits_by_head, cfg.name, logits)]
        use_logits == View(IF cfg.is_causal_lm THEN DropLast(logits) ELSE logits)
        use_labels == View(IF cfg.is_causal_lm THEN DropFirst(SeqTensor(cfg.name, L))
                           ELSE SeqTensor(cfg.name, L))
        arg == TensorGetItemByName(use_labels, cfg.name)
    IN IF ~(cfg.name \in labels /\ cfg.loss_fct # None) THEN filed
       ELSE IF cfg.loss_fct \notin LossFctMap THEN [filed EXCEPT !.status = "KeyError"]
       ELSE IF ~arg.ok THEN [filed EXCEPT !.status = arg.error]
       ELSE [filed EXCEPT
               !.applied = Put(filed.applied, cfg.name, <<use_logits, arg.value>>),
               !.loss_by_head = Put(filed.loss_by_head, cfg.name,
                                    LossValue(use_logits, arg.value)),
               !.loss = filed.loss + LossValue(use_logits, arg.value)]

\* for key in list(self.heads.keys()) + ["lm_head"]: ...
RECURSIVE ForwardLoop(_, _, _, _, _)
ForwardLoop(m, keys, acc, labels, L) ==
    IF keys = <<>> \/ acc.status # "running" THEN acc
    ELSE LET key == Head(keys)
         IN IF key = "lm_head" /\ ~m.lm_head.present
            THEN ForwardLoop(m, Tail(keys), acc, labels, L)
            ELSE ForwardLoop(m, Tail(keys),
                             ForwardHead(acc, ConfigOf(m.head_configs, key), labels, L),
                             labels, L)

\* TransformerWithHeads.forward(input_ids, ..., **labels): the record returned,
\* or the exception raised (then nothing is returned).
ForwardResult(m, labels, L) ==
    LET r == ForwardLoop(m, HeadOrder(m.head_configs) \o <<"lm_head">>,
                         [NoForward EXCEPT !.status = "running"], labels, L)
    IN IF r.status = "running" THEN [r EXCEPT !.status = "ok"]
       ELSE [NoForward EXCEPT !.status = r.status]

NoFModel ==
    [built |-> FALSE, head_configs |-> <<>>, heads |-> <<>>, lm_head |-> NoLmHead,
     lm_head_lin |-> <<>>, lm_head_config |-> <<>>]
NoOut == [labels |-> {}, L |-> 0, result |-> NoForward]

\* get_multi_head_transformer(base)(config): a composed model is constructed.
ConstructModel ==
    /\ LET c == Construct(given)
       IN fmodel' = [built |-> TRUE, head_configs |-> c.head_configs,
                     heads |-> c.heads, lm_head |-> c.lm_head,
                     lm_head_lin |-> c.lm_head_lin,
                     lm_head_config |-> c.lm_head_config]
    /\ out' = NoOut
    /\ UNCHANGED <<model, disk, ret, saveLog, snap, given>>

\* model(input_ids, **labels) on a sequence of L positions.
Forward ==
    /\ fmodel.built
    /\ \E labels \in SUBSET HeadNames, L \in 1..MaxSeqLen :
         out' = [labels |-> labels, L |-> L, result |-> ForwardResult(fmodel, labels, L)]
    /\ UNCHANGED <<model, disk, ret, saveLog, snap, fmodel, given>>

(*************************** specifications ********************************)
Start ==
    /\ model = NoModel
    /\ disk = [d \in Dirs |-> EmptyFolder]
    /\ ret = Outcome("none", "ok", None, FALSE, NoArgs)
    /\ saveLog = <<>>
    /\ snap = [d \in Dirs |-> NoSnapshot]
    /\ fmodel = NoFModel
    /\ out = NoOut

Init == Start /\ given \in UniqueLists(LoaderConfigs)

InitForward == Start /\ given \in UniqueLists(ForwardConfigs)

\* The head configurations construction is exercised with: heads with and
\* without hidden layers, a head named "lm_head" included.
ConstructConfigs ==
    {[name |-> n, trainable |-> t, requires_individual_saving |-> FALSE,
      loss_fct |-> None, is_causal_lm |-> (n = "lm_head"), is_regression |-> FALSE,
      layer_sizes |-> ls] :
        n \in HeadNames, t \in BOOLEAN, ls \in SeqsUpTo({"hidden"}, MaxLayers)}

InitConstruct == Start /\ given \in UniqueLists(ConstructConfigs)

\* Loading, training and saving.
Next == LoadHeaded \/ LoadLoraWithHeads \/ CreateHeadedQlora \/ Train \/ Save

Spec == Init /\ [][Next]_vars

\* Construction and the forward pass.
NextForward == ConstructModel \/ Forward

SpecForward == InitForward /\ [][NextForward]_vars

\* Construction from head configurations of every shape, then forward calls.
SpecConstruct == InitConstruct /\ [][NextForward]_vars

(******************************* claims ************************************)
LoadHeadedCalled == ret.op = "load_headed"
BothSources == ret.args.head_configs_given /\ ret.args.folder_given
NeitherSource == ~ret.args.head_configs_given /\ ~ret.args.folder_given

\* C1: load_headed fails on its opening assertions, before any model is built,
\* whenever head_configs and head_folder_path are both supplied or both absent;
\* it builds a model only when exactly one of the two is supplied.
C1_ExactlyOneHeadSource ==
    LoadHeadedCalled =>
        /\ (BothSources \/ NeitherSource) =>
              /\ ret.status = "AssertionError"
              /\ ret.failed_at = (IF BothSources THEN "both" ELSE "neither")
              /\ ~ret.built
        /\ ret.built => ~BothSources /\ ~NeitherSource
        /\ ret.failed_at \in {"both", "neither"} => BothSources \/ NeitherSource

C1_Witness ==
    /\ LoadHeadedCalled /\ BothSources
    /\ ret.status = "AssertionError" /\ ~ret.built

QuantizedTrainingOfBackbone ==
    /\ ret.args.quant # None
    /\ ~ret.args.only_inference
    /\ ~ret.args.freeze_base_model

\* C2: with exactly one head source, load_headed fails on its quantization
\* assertion exactly when a quantization_config is supplied and only_inference
\* and freeze_base_model are both false; every other combination of the two
\* flags passes it, and without a quantization_config none is rejected.
C2_QuantizationNeedsInferenceOrFreeze ==
    (LoadHeadedCalled /\ ~BothSources /\ ~NeitherSource) =>
        /\ QuantizedTrainingOfBackbone =>
              ret.status = "AssertionError" /\ ret.failed_at = "quantization" /\ ~ret.built
        /\ ~QuantizedTrainingOfBackbone =>
              ret.status # "AssertionError" /\ ret.failed_at # "quantization"

C2_Witness ==
    /\ LoadHeadedCalled /\ ~BothSources /\ ~NeitherSource
    /\ QuantizedTrainingOfBackbone
    /\ ret.status = "AssertionError" /\ ret.failed_at = "quantization"

LoaderReturned ==
    /\ ret.op \in {"load_headed", "load_lora_with_heads", "create_headed_qlora"}
    /\ ret.status = "ok"

\* C3: each of the three loaders returns, for every accepted combination of its
\* arguments, a model instance on which the split-persistence save (backbone
\* save, standalone head saves, head_configs.json manifest) has been installed.
C3_EveryLoaderInstallsSplitSave ==
    LoaderReturned => model.save_pretrained = "patched"

SaveCalled == ret.op = "save"
SavedFolder == disk[ret.args.path]
FlaggedHeads(m) == {n \in DOMAIN m.heads : m.heads[n].requires_individual_saving}

ExpectedSaveLog(m) ==
    LET Flagged(n) == m.heads[n].requires_individual_saving
        order == SelectSeq(HeadOrder(m.head_configs), Flagged)
    IN <<LogEntry("backbone", m.old_save_pretrained)>>
       \o [i \in DOMAIN order |-> LogEntry("head", order[i])]
       \o <<LogEntry("manifest", "head_configs.json")>>

\* C4: one call of the installed save performs, in this order, the backbone's
\* (and any adapter's) own save, the standalone save of exactly the heads whose
\* requires_individual_saving is true, and the write of the head_configs.json
\* manifest holding one record per head name (stated for the instances whose
\* installed save kept the backbone's own save).
C4_SaveWritesBackboneHeadsManifest ==
    (SaveCalled /\ model.save_pretrained = "patched"
                /\ model.old_save_pretrained # "noop") =>
        /\ ret.status = "ok"
        /\ saveLog = ExpectedSaveLog(model)
        /\ SavedFolder.manifest_present
        /\ ManifestKeys(SavedFolder.manifest) = Range(NamesOf(model.head_configs))

\* C5: after a save by a model of a quantized or adapter regime, every head
\* named in the written manifest has a standalone weight file in the directory,
\* whatever only_inference and fully_trained_heads were (stated for the
\* auxiliary heads of a model that carries an adapter).
C5_ManifestHeadsHaveFiles ==
    (SaveCalled /\ ret.status = "ok" /\ model.save_pretrained = "patched"
                /\ model.adapter.present) =>
        \A n \in ManifestKeys(SavedFolder.manifest) :
            IsAux(n) => n \in DOMAIN SavedFolder.files

FolderLoadReturned ==
    /\ ret.op \in {"load_headed", "load_lora_with_heads"}
    /\ ret.status = "ok"
    /\ ret.args.folder_given

SavedWithAllFlagged(s) == s.valid /\ s.patched /\ s.flagged = DOMAIN s.heads

LoadHeadedReturned == LoadHeadedCalled /\ ret.status = "ok"

WeightsRestored ==
    ret.args.folder_given =>
        \A n \in DOMAIN model.heads : model.heads[n].weight = disk[ret.args.path].files[n]

\* C10 as stated: after load_headed returns, every head whose trainable flag is
\* true has requires_individual_saving set to true, and the head's weights have
\* been restored from head_folder_path when a folder was supplied.
C10_TrainableHeadsMarked ==
    LoadHeadedReturned =>
        /\ \A n \in DOMAIN model.heads :
              model.heads[n].trainable => model.heads[n].requires_individual_saving
        /\ WeightsRestored

\* C10 as amended: after load_headed returns with only_inference false, every
\* head of the head collection, trainable or not, has requires_individual_saving
\* true; with only_inference true the loader leaves the flag as the head was
\* constructed with; the weights of every head of the collection have been
\* restored from head_folder_path when a folder was supplied.
C10_HeadsMarkedUnlessInference ==
    LoadHeadedReturned =>
        /\ \A n \in DOMAIN model.heads :
              model.heads[n].requires_individual_saving =
                  IF ~ret.args.only_inference THEN TRUE
                  ELSE ConfigOf(model.head_configs, n).requires_individual_saving
        /\ WeightsRestored

\* A head that is not trainable is flagged by a training-mode load from a folder
\* that holds trained weights.
C10_Witness ==
    /\ LoadHeadedReturned
    /\ ret.args.folder_given /\ ~ret.args.only_inference
    /\ \E n \in DOMAIN model.heads :
          /\ ~model.heads[n].trainable
          /\ ~ConfigOf(model.head_configs, n).requires_individual_saving
          /\ model.heads[n].requires_individual_saving
          /\ model.heads[n].weight = MaxWeight

ForwardCalled == out.result.status # "none"
ConfiguredHeads == Range(fmodel.head_configs)
Produced(n) == n \in DOMAIN out.result.logits_by_head \cup DOMAIN out.result.preds_by_head

\* The heads forward owes a loss to: a loss_fct declared and a same-named label.
LossHeads == {c.name : c \in {x \in ConfiguredHeads : x.loss_fct # None /\ x.name \in out.labels}}

RECURSIVE SumOver(_, _)
SumOver(f, S) ==
    IF S = {} THEN 0
    ELSE LET n == CHOOSE x \in S : TRUE IN f[n] + SumOver(f, S \ {n})

\* C7: for every head whose loss_fct is absent, forward records no entry under
\* the head's name in the per-head loss map and adds nothing to the total loss,
\* for every set of supplied labels, one with a label under that head's name
\* included; the head's output is still produced.
C7_HeadsWithoutLossAreSilent ==
    ForwardCalled =>
        \A c \in ConfiguredHeads :
            c.loss_fct = None =>
                /\ c.name \notin DOMAIN out.result.loss_by_head
                /\ out.result.loss = SumOver(out.result.loss_by_head,
                                             DOMAIN out.result.loss_by_head \ {c.name})
                /\ Produced(c.name)

\* C8: the total loss forward returns is the sum of the values of the returned
\* per-head loss map, whose keys are exactly the heads that declare a loss_fct
\* and have a same-named label supplied; with no such head the total loss is
\* zero and the map is empty.
C8_TotalLossIsSumOverLossHeads ==
    ForwardCalled =>
        /\ out.result.status = "ok"
        /\ DOMAIN out.result.loss_by_head = LossHeads
        /\ out.result.loss = SumOver(out.result.loss_by_head, LossHeads)

\* C9: for a causal-language-model head with a loss_fct and a label of length L,
\* the loss function is applied to the logits at positions 0..L-2 paired with
\* the head's own labels at positions 1..L-1; for a non-causal head logits and
\* labels are paired position for position.
C9_LossOnSelectedThenFlattenedLabels ==
    ForwardCalled =>
        \A c \in ConfiguredHeads :
            (c.loss_fct \in LossFctMap /\ c.name \in out.labels) =>
                /\ c.name \in DOMAIN out.result.applied
                /\ out.result.applied[c.name] =
                      IF c.is_causal_lm
                      THEN <<DropLast(SeqTensor(c.name, out.L)),
                             DropFirst(SeqTensor(c.name, out.L))>>
                      ELSE <<SeqTensor(c.name, out.L), SeqTensor(c.name, out.L)>>

\* The loss tags of the specification's vocabulary.
LossVocabulary == {"mse", "cross_entropy", "bce"}

\* C11: every loss tag in {mse, cross_entropy, bce} is accepted by forward for
\* a head that declares it and has a label supplied: the lookup of the head's
\* tag in the loss map never fails for a tag of the vocabulary.
C11_LossVocabularyAccepted ==
    ForwardCalled =>
        \A c \in ConfiguredHeads :
            (c.loss_fct \in LossVocabulary /\ c.name \in out.labels) =>
                out.result.status # "KeyError"

\* The parameter groups of the loaded model that have gradient tracking on.
GradTracked(m) ==
    {n \in DOMAIN m.heads : m.heads[n].requires_grad}
        \cup (IF m.lm_head.present /\ m.lm_head.requires_grad THEN {"lm_head"} ELSE {})
        \cup (IF m.adapter.present /\ m.adapter.requires_grad THEN {"adapter"} ELSE {})
        \cup (IF m.base_requires_grad THEN {"backbone"} ELSE {})

\* The configured heads whose trainable flag is true.
TrainableHeadNames(m) == {c.name : c \in {x \in Range(m.head_configs) : x.trainable}}

PlainLoadReturned == LoadHeadedReturned /\ ret.args.quant = None

\* C12: after load_headed with no quantization_config and freeze_base_model
\* true, every backbone parameter has gradient tracking off and the parameters
\* with gradient tracking on are exactly those of the heads whose trainable
\* flag is true when only_inference is false, none when it is true; with
\* freeze_base_model false the backbone's gradient tracking is as
\* from_pretrained left it.
C12_FrozenLoadTracksTrainableHeads ==
    PlainLoadReturned =>
        IF ret.args.freeze_base_model
        THEN /\ ~model.base_requires_grad
             /\ GradTracked(model) = IF ret.args.only_inference THEN {}
                                     ELSE TrainableHeadNames(model)
        ELSE model.base_requires_grad = FromPretrained(model.head_configs).base_requires_grad

ConstructedFrom == fmodel.built
ConfiguredNames == Range(NamesOf(given))
LmHeadConfigured == "lm_head" \in ConfiguredNames

\* C13: after construction from a head-configuration list with unique names,
\* the general head collection holds one head per configured name except
\* "lm_head" and never the key "lm_head"; the lm_head projection and its
\* configuration are present exactly when a head named "lm_head" was
\* configured, and the projection is then that head's sole linear
\* transformation; the head-configuration record lists every configured head.
C13_LmHeadExtractedAtConstruction ==
    ConstructedFrom =>
        /\ DOMAIN fmodel.heads = ConfiguredNames \ {"lm_head"}
        /\ \A n \in DOMAIN fmodel.heads :
              fmodel.heads[n] = MLPHeadFromConfig(ConfigOf(given, n))
        /\ fmodel.lm_head.present = LmHeadConfigured
        /\ (fmodel.lm_head_lin # <<>>) = LmHeadConfigured
        /\ fmodel.lm_head_config =
              IF LmHeadConfigured THEN <<ConfigOf(given, "lm_head")>> ELSE <<>>
        /\ LmHeadConfigured =>
              fmodel.lm_head_lin = MLPHeadFromConfig(ConfigOf(given, "lm_head")).lins
        /\ fmodel.head_configs = given

====
